---- MODULE Spec2Model ----
(***************************************************************************)
(* Tender compliance pipeline: text extraction (scripts/extract_text.py), *)
(* requirement parsing and compliance classification                       *)
(* (scripts/extract_requirements.py, scripts/compare_with_ollama.py), the  *)
(* report driver (scripts/generate_report.py) and the Streamlit front end  *)
(* (app.py).                                                               *)
(*                                                                         *)
(* Python strings are modelled as sequences of one-character strings, so   *)
(* that strip, lower, split, replace and the substring test are computed   *)
(* character by character as Python computes them.                         *)
(***************************************************************************)
EXTENDS Integers, Sequences, FiniteSets, TLC

VARIABLES
    \* ---- classifier response parsing (SpecClassify)
    response,        \* response['message']['content'] of the chat call
    cpc,             \* "init" | "terse" | "structured"
    verdict,         \* return value of evaluate_compliance
    status,          \* first component returned by smart_compliance_check
    reason,          \* second component returned by smart_compliance_check
    \* ---- requirement parsing (SpecParse)
    requirements_text,   \* response['message']['content'] of the extraction call
    ppc,                 \* "init" | "plain" | "structured"
    requirements,        \* list returned by extract_requirements_only
    structured,          \* list returned by extract_structured_requirements
    \* ---- report row rendering (SpecRender)
    requirement,     \* the requirement text of the row
    firm_compliance, \* the three verdicts of the row
    rpc,             \* "init" | "basic" | "enhanced"
    latex_row,       \* the rendered row
    \* ---- extract_text (SpecExtract)
    pages,           \* p.pages: what page.extract_text() does on each page
    xpc,             \* position of the call in extract_text
    text,            \* extract_text.text
    page_no,         \* position of the running for loop
    tmpdir,          \* the temporary directory: "absent" | "exists" | "removed"
    images,          \* convert_from_path's result: the page each image renders
    ocr_calls,       \* image_to_string calls made on each image
    \* ---- the pipeline entry points (Spec)
    entry,           \* "app" | "main" | "enhanced": which entry point runs
    pc,              \* position of the run
    tender_file,     \* the tender document given to the run
    firm_files,      \* the three proposal slots given to the run
    analysis_complete,   \* st.session_state.analysis_complete
    report_data,     \* st.session_state.report_data: <<>> is None, else <<df>>
    tender_text,     \* extract_text(tender): "unset" | "empty" | "text"
    firm_texts,      \* the proposal texts, in the order the run holds them
    comparison_data, \* app.py comparison_data: the "Firm k" columns, in order
    compliance_results,  \* verdicts of the column or row being built
    firm_i,          \* proposal the running loop is at
    req_j,           \* requirement the running loop is at
    latex_rows,      \* latex_rows of the table being generated
    report,          \* the report written or returned: <<>> is none, else <<txt>>
    outcome,         \* the message the run ended with
    extract_calls,   \* requirement-extraction chat calls made by the run
    classify_calls,  \* classification chat calls made by the run
    failed,          \* the classification whose chat call raised, if any
    \* ---- the report and its summary (SpecReport)
    table_requirements,  \* requirements given to create_compliance_table_latex
    matrix,          \* the verdicts the latest rendering obtained, per requirement
    latex_content,   \* return value of create_compliance_table_latex
    stats,           \* <<>> or <<return value of calculate_compliance_summary>>
    tpc              \* "init" | "rendered" | "summarized"

classifyVars == <<response, cpc, verdict, status, reason>>

parseVars == <<requirements_text, ppc, requirements, structured>>

renderVars == <<requirement, firm_compliance, rpc, latex_row>>

extractVars == <<pages, xpc, text, page_no, tmpdir, images, ocr_calls>>

sessionVars == <<analysis_complete, report_data>>

inputVars == <<tender_file, firm_files, tender_text, firm_texts>>

loopVars == <<comparison_data, compliance_results, firm_i, req_j, latex_rows>>

countVars == <<extract_calls, classify_calls, failed>>

pipeVars ==
    <<entry, pc, sessionVars, inputVars, loopVars, report, outcome, countVars>>

reportVars == <<table_requirements, matrix, latex_content, stats, tpc>>

vars == <<classifyVars, parseVars, renderVars, extractVars, pipeVars, reportVars>>

\* what the classifier actions leave alone
notClassifyVars == <<parseVars, renderVars, extractVars, pipeVars, reportVars>>

\* what the parser actions leave alone
notParseVars == <<classifyVars, renderVars, extractVars, pipeVars, reportVars>>

\* what the row renderers leave alone
notRenderVars == <<classifyVars, parseVars, extractVars, pipeVars, reportVars>>

\* what extract_text leaves alone
notExtractVars == <<classifyVars, parseVars, renderVars, pipeVars, reportVars>>

\* what the pipeline runs leave alone (they set the parser's variables)
notPipeVars == <<classifyVars, renderVars, extractVars, ppc, reportVars>>

\* what the report functions leave alone
notReportVars == <<classifyVars, parseVars, renderVars, extractVars, pipeVars>>

----------------------------------------------------------------------------
\* Bounds of the model

\* longest backend response, in tokens of ResponseTokens
MaxTokens == 5

\* longest requirement listing, in tokens of ListingTokens
MaxListingTokens == 5

\* longest requirement text of a rendered row, in characters
MaxRequirementChars == 3

\* most pages of a document
MaxPages == 3

\* most requirements of a report
MaxRows == 2

\* most requirements the backend lists for app.py and generate_report.py
MaxRequirements == 2

\* most requirements the backend lists for generate_enhanced_comparison_table
MaxCategorized == 3

----------------------------------------------------------------------------
\* Python str operations on sequences of characters

UpperLetters ==
    <<"A","B","C","D","E","F","G","H","I","J","K","L","M",
      "N","O","P","Q","R","S","T","U","V","W","X","Y","Z">>

LowerLetters ==
    <<"a","b","c","d","e","f","g","h","i","j","k","l","m",
      "n","o","p","q","r","s","t","u","v","w","x","y","z">>

\* the characters str.strip() removes (those that occur in the model)
Whitespace == {" ", "\n", "\t", "\r"}

LowerChar(c) ==
    IF \E k \in 1..26 : UpperLetters[k] = c
    THEN LowerLetters[CHOOSE k \in 1..26 : UpperLetters[k] = c]
    ELSE c

UpperChar(c) ==
    IF \E k \in 1..26 : LowerLetters[k] = c
    THEN UpperLetters[CHOOSE k \in 1..26 : LowerLetters[k] = c]
    ELSE c

\* str.lower()
Lower(s) == [k \in 1..Len(s) |-> LowerChar(s[k])]

\* str.upper()
Upper(s) == [k \in 1..Len(s) |-> UpperChar(s[k])]

\* sub occurs in s at position k
OccursAt(s, sub, k) ==
    /\ k >= 1
    /\ k + Len(sub) - 1 <= Len(s)
    /\ SubSeq(s, k, k + Len(sub) - 1) = sub

\* str.find, 1-based, 0 when absent
Find(s, sub) ==
    LET hits == {k \in 1..Len(s) : OccursAt(s, sub, k)}
    IN  IF hits = {} THEN 0
        ELSE CHOOSE k \in hits : \A h \in hits : k <= h

\* Python's `sub in s` (sub non-empty)
Contains(s, sub) == Find(s, sub) # 0

\* str.startswith
StartsWith(s, sub) == OccursAt(s, sub, 1)

\* str.lstrip(chars)
RECURSIVE LStripChars(_, _)
LStripChars(s, chars) ==
    IF s # <<>> /\ Head(s) \in chars THEN LStripChars(Tail(s), chars) ELSE s

\* str.rstrip(chars)
RECURSIVE RStripChars(_, _)
RStripChars(s, chars) ==
    IF s # <<>> /\ s[Len(s)] \in chars
    THEN RStripChars(SubSeq(s, 1, Len(s) - 1), chars)
    ELSE s

\* str.strip()
Strip(s) == RStripChars(LStripChars(s, Whitespace), Whitespace)

\* str.split(sep): the parts between the non-overlapping occurrences of sep,
\* found left to right
RECURSIVE Split(_, _)
Split(s, sep) ==
    LET k == Find(s, sep)
    IN  IF k = 0 THEN <<s>>
        ELSE <<SubSeq(s, 1, k - 1)>> \o Split(SubSeq(s, k + Len(sep), Len(s)), sep)

\* str.split(sep, maxsplit)
RECURSIVE SplitMax(_, _, _)
SplitMax(s, sep, maxsplit) ==
    LET k == Find(s, sep)
    IN  IF k = 0 \/ maxsplit = 0 THEN <<s>>
        ELSE <<SubSeq(s, 1, k - 1)>>
             \o SplitMax(SubSeq(s, k + Len(sep), Len(s)), sep, maxsplit - 1)

\* str.replace(c, new) for a one-character c
RECURSIVE Replace(_, _, _)
Replace(s, c, new) ==
    IF s = <<>> THEN <<>>
    ELSE (IF Head(s) = c THEN new ELSE <<Head(s)>>) \o Replace(Tail(s), c, new)

\* concatenation of a sequence of strings
RECURSIVE Concat(_)
Concat(ss) == IF ss = <<>> THEN <<>> ELSE Head(ss) \o Concat(Tail(ss))

\* "sep".join(ss)
RECURSIVE Join(_, _)
Join(ss, sep) ==
    IF ss = <<>> THEN <<>>
    ELSE IF Len(ss) = 1 THEN Head(ss)
    ELSE Head(ss) \o sep \o Join(Tail(ss), sep)

\* all sequences over S of length at most n
SeqsUpTo(S, n) == UNION {[1..k -> S] : k \in 0..n}

----------------------------------------------------------------------------
\* String literals of the classifiers

sComplied == <<"C","o","m","p","l","i","e","d">>
sNotComplied == <<"N","o","t"," ","C","o","m","p","l","i","e","d">>
sUnable ==
    <<"U","n","a","b","l","e"," ","t","o"," ","d","e","t","e","r","m","i","n","e",
      " ","c","o","m","p","l","i","a","n","c","e">>
scomplied == <<"c","o","m","p","l","i","e","d">>
snot == <<"n","o","t">>
sSTATUS == <<"S","T","A","T","U","S",":">>
sREASON == <<"R","E","A","S","O","N",":">>
sNewline == <<"\n">>

\* the pieces backend responses are built from
ResponseTokens ==
    { sSTATUS, sREASON, sComplied, <<"N","o","t"," ">>, sNewline, <<"x">> }

\* every response text of at most MaxTokens tokens
Responses == {Concat(ts) : ts \in SeqsUpTo(ResponseTokens, MaxTokens)}

----------------------------------------------------------------------------
\* ComplianceClassifier: parsing of the backend's answer

\* the standardisation both classifiers apply to the status text
Standardize(txt) ==
    IF Contains(Lower(txt), scomplied) /\ ~Contains(Lower(txt), snot)
    THEN sComplied
    ELSE sNotComplied

\* evaluate_compliance, from the response content to the return value
EvaluateParse(content) == Standardize(Strip(content))

\* first line of text that contains label
FirstLineWith(txt, label) ==
    LET lines == Split(txt, sNewline)
        k == CHOOSE n \in 1..Len(lines) :
                /\ Contains(lines[n], label)
                /\ \A m \in 1..(n - 1) : ~Contains(lines[m], label)
    IN  lines[k]

\* a default status that reads as compliant
DefaultStatusComplied == sComplied

\* the default status of smart_compliance_check
DefaultStatus == sNotComplied

\* the default reason of smart_compliance_check
DefaultReason == sUnable

\* the status text of smart_compliance_check before standardisation
SmartStatusText(result) ==
    IF Contains(result, sSTATUS)
    THEN Strip(Split(FirstLineWith(result, sSTATUS), sSTATUS)[2])
    ELSE DefaultStatus

\* the reason returned by smart_compliance_check
SmartReason(result) ==
    IF Contains(result, sREASON)
    THEN Strip(Split(FirstLineWith(result, sREASON), sREASON)[2])
    ELSE DefaultReason

\* the status returned by smart_compliance_check
SmartStatus(result) == Standardize(SmartStatusText(result))

ClassifyStart ==
    /\ response \in Responses
    /\ cpc = "init"
    /\ verdict = <<>>
    /\ status = <<>>
    /\ reason = <<>>

\* no classifier call has been made
ClassifyIdle ==
    /\ response = <<>>
    /\ cpc = "off"
    /\ verdict = <<>>
    /\ status = <<>>
    /\ reason = <<>>

\* evaluate_compliance on a backend answer
EvaluateCompliance ==
    /\ cpc = "init"
    /\ cpc' = "terse"
    /\ verdict' = EvaluateParse(response)
    /\ UNCHANGED <<response, status, reason>>
    /\ UNCHANGED notClassifyVars

\* smart_compliance_check on a backend answer
SmartComplianceCheck ==
    /\ cpc = "init"
    /\ cpc' = "structured"
    /\ status' = SmartStatus(response)
    /\ reason' = SmartReason(response)
    /\ UNCHANGED <<response, verdict>>
    /\ UNCHANGED notClassifyVars

ClassifyNext == EvaluateCompliance \/ SmartComplianceCheck

----------------------------------------------------------------------------
\* RequirementParser: parsing of the backend's requirement listing

\* U+2022, the bullet character (one character; this module is ASCII)
Bullet == "<U+2022>"

sHyphen == <<"-">>
sBullet == <<Bullet>>
sColon == <<":">>

\* the characters of line.lstrip('- <U+2022>')
BulletMarkers == {"-", " ", Bullet}

\* the category names of extract_structured_requirements
Categories ==
    { <<"H","A","R","D","W","A","R","E">>,
      <<"S","O","F","T","W","A","R","E">>,
      <<"P","E","R","F","O","R","M","A","N","C","E">>,
      <<"E","L","E","C","T","R","I","C","A","L">>,
      <<"P","H","Y","S","I","C","A","L">>,
      <<"E","N","V","I","R","O","N","M","E","N","T","A","L">>,
      <<"C","O","N","N","E","C","T","I","V","I","T","Y">>,
      <<"C","E","R","T","I","F","I","C","A","T","I","O","N">>,
      <<"Q","U","A","L","I","T","Y">> }

\* the pieces requirement listings are built from
ListingTokens ==
    { <<"-"," ">>, sBullet, sColon, sNewline, <<"a">>,
      <<"H","a","r","d","w","a","r","e",":">> }

\* every listing of at most MaxListingTokens tokens
Listings == {Concat(ts) : ts \in SeqsUpTo(ListingTokens, MaxListingTokens)}

\* the test of extract_requirements_only on a stripped line
QualifiesPlain(line) ==
    /\ line # <<>>
    /\ (StartsWith(line, sHyphen) \/ StartsWith(line, sBullet) \/ Contains(line, sColon))

\* requirement = line.lstrip('- <U+2022>').strip()
CleanRequirement(line) == Strip(LStripChars(line, BulletMarkers))

\* every cleaned text is appended, the empty one too
KeepAnyRequirement(req) == TRUE

\* `if requirement:` before the append
KeepRequirement(req) == req # <<>>

\* the loop of extract_requirements_only over the lines of the listing
RECURSIVE ParsePlainLines(_)
ParsePlainLines(lines) ==
    IF lines = <<>> THEN <<>>
    ELSE LET line == Strip(Head(lines))
             rest == ParsePlainLines(Tail(lines))
         IN  IF QualifiesPlain(line) /\ KeepRequirement(CleanRequirement(line))
             THEN <<CleanRequirement(line)>> \o rest
             ELSE rest

\* extract_requirements_only, from the response content to the returned list
ParsePlain(txt) == ParsePlainLines(Split(txt, sNewline))

\* the test of extract_structured_requirements on a stripped line
QualifiesCategory(line) ==
    /\ Contains(line, sColon)
    /\ \E cat \in Categories : Contains(Upper(line), cat)

\* the record appended for a line with three parts
StructuredRecord(parts) ==
    [ category |-> Strip(parts[1]),
      requirement |-> Strip(parts[2]),
      specification |-> Strip(parts[3]),
      full_text |-> Strip(parts[2]) \o <<":", " ">> \o Strip(parts[3]) ]

\* the loop of extract_structured_requirements over the lines of the listing
RECURSIVE ParseStructuredLines(_)
ParseStructuredLines(lines) ==
    IF lines = <<>> THEN <<>>
    ELSE LET line == Strip(Head(lines))
             parts == SplitMax(line, sColon, 2)
             rest == ParseStructuredLines(Tail(lines))
         IN  IF QualifiesCategory(line) /\ Len(parts) >= 3
             THEN <<StructuredRecord(parts)>> \o rest
             ELSE rest

\* extract_structured_requirements, from the response content to the returned list
ParseStructured(txt) == ParseStructuredLines(Split(txt, sNewline))

ParseStart ==
    /\ requirements_text \in Listings
    /\ ppc = "init"
    /\ requirements = <<>>
    /\ structured = <<>>

\* no listing has been parsed
ParseIdle ==
    /\ requirements_text = <<>>
    /\ ppc = "off"
    /\ requirements = <<>>
    /\ structured = <<>>

\* extract_requirements_only on a backend listing
ExtractRequirementsOnly ==
    /\ ppc = "init"
    /\ ppc' = "plain"
    /\ requirements' = ParsePlain(requirements_text)
    /\ UNCHANGED <<requirements_text, structured>>
    /\ UNCHANGED notParseVars

\* extract_structured_requirements on a backend listing
ExtractStructuredRequirements ==
    /\ ppc = "init"
    /\ ppc' = "structured"
    /\ structured' = ParseStructured(requirements_text)
    /\ UNCHANGED <<requirements_text, requirements>>
    /\ UNCHANGED notParseVars

ParseNext == ExtractRequirementsOnly \/ ExtractStructuredRequirements


----------------------------------------------------------------------------
\* ReportRenderer: one table row

sAmp == <<"&">>
sSep == <<" ", "&", " ">>
sRowEnd == <<" ", "\\", "\\">>
sTextcolor == <<"\\","t","e","x","t","c","o","l","o","r">>
sGreen == <<"g","r","e","e","n">>
sRed == <<"r","e","d">>

\* the characters requirement texts are built from
RequirementChars == {"&", "%", "_", "#", "$", "\\", "a"}

\* req_escaped of generate_compliance_comparison
EscapeBasic(txt) ==
    Replace(Replace(Replace(Replace(txt,
        "&", <<"\\", "&">>),
        "%", <<"\\", "%">>),
        "_", <<"\\", "_">>),
        "#", <<"\\", "#">>)

\* req_text of generate_enhanced_comparison_table
EscapeEnhanced(txt) ==
    Replace(Replace(Replace(Replace(Replace(txt,
        "&", <<"\\", "&">>),
        "%", <<"\\", "%">>),
        "_", <<"\\", "_">>),
        "#", <<"\\", "#">>),
        "$", <<"\\", "$">>)

\* latex_row of generate_compliance_comparison
BasicRow(txt, firm1, firm2, firm3) ==
    EscapeBasic(txt) \o sSep \o firm1 \o sSep \o firm2 \o sSep \o firm3 \o sRowEnd

\* firmN_cell of generate_enhanced_comparison_table
ColorCell(firm_status) ==
    sTextcolor \o <<"{">> \o (IF firm_status = sComplied THEN sGreen ELSE sRed)
        \o <<"}">> \o <<"{">> \o firm_status \o <<"}">>

\* latex_row of generate_enhanced_comparison_table
EnhancedRow(txt, firm1, firm2, firm3) ==
    EscapeEnhanced(txt) \o sSep \o ColorCell(firm1) \o sSep \o ColorCell(firm2)
        \o sSep \o ColorCell(firm3) \o sRowEnd

\* the verdicts a classifier returns
Verdicts == {sComplied, sNotComplied}

RenderStart ==
    /\ requirement \in SeqsUpTo(RequirementChars, MaxRequirementChars)
    /\ firm_compliance \in [1..3 -> Verdicts]
    /\ rpc = "init"
    /\ latex_row = <<>>

\* no row has been rendered
RenderIdle ==
    /\ requirement = <<>>
    /\ firm_compliance = <<>>
    /\ rpc = "off"
    /\ latex_row = <<>>

\* one row of generate_compliance_comparison
RenderBasicRow ==
    /\ rpc = "init"
    /\ rpc' = "basic"
    /\ latex_row' = BasicRow(requirement, firm_compliance[1], firm_compliance[2],
                             firm_compliance[3])
    /\ UNCHANGED <<requirement, firm_compliance>>
    /\ UNCHANGED notRenderVars

\* one row of generate_enhanced_comparison_table
RenderEnhancedRow ==
    /\ rpc = "init"
    /\ rpc' = "enhanced"
    /\ latex_row' = EnhancedRow(requirement, firm_compliance[1], firm_compliance[2],
                                firm_compliance[3])
    /\ UNCHANGED <<requirement, firm_compliance>>
    /\ UNCHANGED notRenderVars

RenderNext == RenderBasicRow \/ RenderEnhancedRow


----------------------------------------------------------------------------
\* TextExtractor: extract_text(pdf_path)

\* what page.extract_text() does on a page: returns None, returns whitespace,
\* returns text, or raises
PageKinds ==
    { [kind |-> "none",  layer |-> <<>>],
      [kind |-> "text",  layer |-> <<" ">>],
      [kind |-> "text",  layer |-> <<"a">>],
      [kind |-> "raise", layer |-> <<>>] }

\* what pytesseract.image_to_string returns for an image
OcrTexts == { <<>>, <<"b">> }

\* `page.extract_text() or ""`
LayerOrEmpty(page) == IF page.kind = "none" THEN <<>> ELSE page.layer

\* `if text.strip():` is false, the OCR fallback runs
NeedsOcr(t) == Strip(t) = <<>>

\* a directory that survives an exception inside the with block
TmpdirRemovedOnReturnOnly(raised) == IF raised THEN "exists" ELSE "removed"

\* TemporaryDirectory.__exit__: the directory is removed when the with block
\* is left, by return or by exception
TmpdirAfterExit(raised) == "removed"

ExtractStart ==
    /\ pages \in SeqsUpTo(PageKinds, MaxPages)
    /\ xpc = "open"
    /\ text = <<>>
    /\ page_no = 0
    /\ tmpdir = "absent"
    /\ images = <<>>
    /\ ocr_calls = <<>>

\* extract_text has not been called
ExtractIdle ==
    /\ pages = <<>>
    /\ xpc = "off"
    /\ text = <<>>
    /\ page_no = 0
    /\ tmpdir = "absent"
    /\ images = <<>>
    /\ ocr_calls = <<>>

\* pdfplumber.open(pdf_path) succeeds; text = ""
OpenPdf ==
    /\ xpc = "open"
    /\ xpc' = "layer"
    /\ page_no' = 1
    /\ UNCHANGED <<pages, text, tmpdir, images, ocr_calls>>
    /\ UNCHANGED notExtractVars

\* pdfplumber.open(pdf_path) raises
OpenPdfRaises ==
    /\ xpc = "open"
    /\ xpc' = "raised"
    /\ UNCHANGED <<pages, text, page_no, tmpdir, images, ocr_calls>>
    /\ UNCHANGED notExtractVars

\* text += page.extract_text() or ""
ExtractPage ==
    /\ xpc = "layer"
    /\ page_no <= Len(pages)
    /\ pages[page_no].kind # "raise"
    /\ text' = text \o LayerOrEmpty(pages[page_no])
    /\ page_no' = page_no + 1
    /\ UNCHANGED <<pages, xpc, tmpdir, images, ocr_calls>>
    /\ UNCHANGED notExtractVars

\* page.extract_text() raises: nothing catches it, extract_text raises
ExtractPageRaises ==
    /\ xpc = "layer"
    /\ page_no <= Len(pages)
    /\ pages[page_no].kind = "raise"
    /\ xpc' = "raised"
    /\ UNCHANGED <<pages, text, page_no, tmpdir, images, ocr_calls>>
    /\ UNCHANGED notExtractVars

\* `if text.strip(): return text`
ReturnTextLayer ==
    /\ xpc = "layer"
    /\ page_no > Len(pages)
    /\ ~NeedsOcr(text)
    /\ xpc' = "returned"
    /\ UNCHANGED <<pages, text, page_no, tmpdir, images, ocr_calls>>
    /\ UNCHANGED notExtractVars

\* `with tempfile.TemporaryDirectory() as tmpdir:`
EnterTmpdir ==
    /\ xpc = "layer"
    /\ page_no > Len(pages)
    /\ NeedsOcr(text)
    /\ xpc' = "render"
    /\ tmpdir' = "exists"
    /\ UNCHANGED <<pages, text, page_no, images, ocr_calls>>
    /\ UNCHANGED notExtractVars

\* images = convert_from_path(pdf_path, dpi=300, output_folder=tmpdir)
RenderPages ==
    /\ xpc = "render"
    /\ xpc' = "ocr"
    /\ images' = [k \in 1..Len(pages) |-> k]
    /\ ocr_calls' = [k \in 1..Len(pages) |-> 0]
    /\ page_no' = 1
    /\ UNCHANGED <<pages, text, tmpdir>>
    /\ UNCHANGED notExtractVars

\* convert_from_path raises; the with block is left by the exception
RenderPagesRaises ==
    /\ xpc = "render"
    /\ xpc' = "raised"
    /\ tmpdir' = TmpdirAfterExit(TRUE)
    /\ UNCHANGED <<pages, text, page_no, images, ocr_calls>>
    /\ UNCHANGED notExtractVars

\* text += pytesseract.image_to_string(img, lang="eng")
OcrImage ==
    /\ xpc = "ocr"
    /\ page_no <= Len(images)
    /\ \E t \in OcrTexts : text' = text \o t
    /\ ocr_calls' = [ocr_calls EXCEPT ![page_no] = @ + 1]
    /\ page_no' = page_no + 1
    /\ UNCHANGED <<pages, xpc, tmpdir, images>>
    /\ UNCHANGED notExtractVars

\* image_to_string raises; the with block is left by the exception
OcrImageRaises ==
    /\ xpc = "ocr"
    /\ page_no <= Len(images)
    /\ xpc' = "raised"
    /\ ocr_calls' = [ocr_calls EXCEPT ![page_no] = @ + 1]
    /\ tmpdir' = TmpdirAfterExit(TRUE)
    /\ UNCHANGED <<pages, text, page_no, images>>
    /\ UNCHANGED notExtractVars

\* the for loop ends, the with block is left, `return text`
ReturnOcr ==
    /\ xpc = "ocr"
    /\ page_no > Len(images)
    /\ xpc' = "returned"
    /\ tmpdir' = TmpdirAfterExit(FALSE)
    /\ UNCHANGED <<pages, text, page_no, images, ocr_calls>>
    /\ UNCHANGED notExtractVars

ExtractNext ==
    \/ OpenPdf
    \/ OpenPdfRaises
    \/ ExtractPage
    \/ ExtractPageRaises
    \/ ReturnTextLayer
    \/ EnterTmpdir
    \/ RenderPages
    \/ RenderPagesRaises
    \/ OcrImage
    \/ OcrImageRaises
    \/ ReturnOcr

----------------------------------------------------------------------------
\* The pipeline entry points: the analysis of app.py, main of
\* generate_report.py, and generate_enhanced_comparison_table

\* the proposal slots: firm1_file, firm2_file, firm3_file
NumFirms == 3

Slots == 1..NumFirms

Entries == {"app", "main", "enhanced"}

\* a document given to a run: not given, one extract_text raises on, one
\* without any text, one with text
DocKinds == {"none", "unreadable", "empty", "text"}

\* the answers of the backend to a terse classification
TerseResponses == {sComplied, sNotComplied}

sStructuredYes == sSTATUS \o <<" ">> \o sComplied \o sNewline \o sREASON \o <<" ", "x">>
sStructuredNo == sSTATUS \o <<" ">> \o sNotComplied \o sNewline \o sREASON \o <<" ", "x">>

\* the answers of the backend to a structured classification
StructuredResponses == {sStructuredYes, sStructuredNo}

\* evaluate_compliance on each terse response
TerseVerdict == [r \in TerseResponses |-> EvaluateParse(r)]

\* smart_compliance_check's status on each structured response
StructuredVerdict == [r \in StructuredResponses |-> SmartStatus(r)]

\* the n-th listed requirement, "<letter>: <letter>"
ListedRequirement(n) == <<LowerLetters[n]>> \o <<":", " ">> \o <<LowerLetters[n]>>

\* a listing of n hyphen-prefixed requirements
PlainListing(n) == Join([k \in 1..n |-> <<"-", " ">> \o ListedRequirement(k)], sNewline)

\* the answers of the backend to extract_requirements_only: prose without any
\* requirement, or a listing of up to MaxRequirements requirements
PlainListings == {<<"n", "o", "n", "e">>} \cup {PlainListing(n) : n \in 0..MaxRequirements}

\* the categories the backend uses in the runs
RunCategories == { <<"H","A","R","D","W","A","R","E">>, <<"S","O","F","T","W","A","R","E">> }

\* a listing with one line "CATEGORY: <letter>: <letter>" per category of cs
CategorizedListing(cs) ==
    Join([k \in 1..Len(cs) |-> cs[k] \o <<":", " ">> \o ListedRequirement(k)], sNewline)

\* the answers of the backend to extract_structured_requirements
CategorizedListings ==
    {<<"n", "o", "n", "e">>}
        \cup {CategorizedListing(cs) : cs \in SeqsUpTo(RunCategories, MaxCategorized)}

\* firm_files = [f for f in [firm1_file, firm2_file, firm3_file] if f is not None]
RECURSIVE SuppliedFrom(_, _)
SuppliedFrom(files, s) ==
    IF s > NumFirms THEN <<>>
    ELSE (IF files[s] # "none" THEN <<s>> ELSE <<>>) \o SuppliedFrom(files, s + 1)

SuppliedFirms(files) == SuppliedFrom(files, 1)

\* the requirement list is never taken to be empty
NoRequirementsNever(reqs) == FALSE

\* `if not requirements:`
NoRequirements(reqs) == reqs = <<>>

\* `if not tender_text:`
NoTenderText(kind) == kind = "empty"

\* a rule follows row k when its category differs from the row before it
SeparatorAfterChange(k, reqs) ==
    k > 1 /\ reqs[k].category # reqs[k - 1].category

\* line 182: a rule follows row k when it is not the last and the next
\* requirement has another category
SeparatorAfter(k, reqs) ==
    k < Len(reqs) /\ reqs[k].category # reqs[k + 1].category

sHline == <<"\\", "h", "l", "i", "n", "e">>

\* the state of a run that has not started
RunCleared ==
    /\ tender_file = "none"
    /\ firm_files = [s \in Slots |-> "none"]
    /\ tender_text = "unset"
    /\ firm_texts = <<>>
    /\ comparison_data = <<>>
    /\ compliance_results = <<>>
    /\ firm_i = 0
    /\ req_j = 0
    /\ latex_rows = <<>>
    /\ report = <<>>
    /\ outcome = "none"
    /\ extract_calls = 0
    /\ classify_calls = 0
    /\ failed = <<>>

\* lines 37-42 of app.py; the scripts have not started
PipeStart ==
    /\ entry \in Entries
    /\ pc = "idle"
    /\ analysis_complete = FALSE
    /\ report_data = <<>>
    /\ RunCleared

\* no entry point runs
PipeIdle ==
    /\ entry = "none"
    /\ pc = "off"
    /\ analysis_complete = FALSE
    /\ report_data = <<>>
    /\ RunCleared

\* a script run starts with fresh locals
FreshLocals ==
    /\ comparison_data' = <<>>
    /\ compliance_results' = <<>>
    /\ firm_i' = 0
    /\ req_j' = 0
    /\ latex_rows' = <<>>
    /\ report' = <<>>
    /\ extract_calls' = 0
    /\ classify_calls' = 0
    /\ failed' = <<>>
    /\ requirements_text' = <<>>
    /\ requirements' = <<>>
    /\ structured' = <<>>

\* the texts of the given proposals, in slot order
TextsOf(files) ==
    [k \in 1..Len(SuppliedFirms(files)) |->
        [slot |-> SuppliedFirms(files)[k], kind |-> files[SuppliedFirms(files)[k]]]]

\* app.py lines 44-61: the button is clicked with the given uploads
Click ==
    /\ entry = "app"
    /\ pc = "idle"
    /\ \E t \in DocKinds, f \in [Slots -> DocKinds] :
          /\ tender_file' = t
          /\ firm_files' = f
          /\ analysis_complete' = FALSE
          /\ report_data' = <<>>
          /\ FreshLocals
          /\ IF t = "none"
             THEN /\ outcome' = "warning_no_tender"
                  /\ pc' = "ended"
                  /\ tender_text' = "unset"
                  /\ firm_texts' = <<>>
             ELSE IF SuppliedFirms(f) = <<>>
             THEN /\ outcome' = "warning_no_firms"
                  /\ pc' = "ended"
                  /\ tender_text' = "unset"
                  /\ firm_texts' = <<>>
             ELSE IF t = "unreadable"
             THEN /\ outcome' = "exception"
                  /\ pc' = "crashed"
                  /\ tender_text' = "unset"
                  /\ firm_texts' = <<>>
             ELSE IF \E s \in Slots : f[s] = "unreadable"
             THEN /\ outcome' = "exception"
                  /\ pc' = "crashed"
                  /\ tender_text' = t
                  /\ firm_texts' = <<>>
             ELSE /\ tender_text' = t
                  /\ firm_texts' = TextsOf(f)
                  /\ IF NoTenderText(t)
                     THEN outcome' = "error_no_text" /\ pc' = "ended"
                     ELSE outcome' = "none" /\ pc' = "extract_requirements"
    /\ UNCHANGED entry
    /\ UNCHANGED notPipeVars

\* a script run of app.py is over (it ended or raised): its locals are gone,
\* st.session_state stays, and the page waits for the next widget event
ScriptRunOver ==
    /\ entry = "app"
    /\ pc \in {"ended", "crashed"}
    /\ pc' = "idle"
    /\ FreshLocals
    /\ tender_file' = "none"
    /\ firm_files' = [s \in Slots |-> "none"]
    /\ tender_text' = "unset"
    /\ firm_texts' = <<>>
    /\ outcome' = "none"
    /\ UNCHANGED <<entry, sessionVars>>
    /\ UNCHANGED notPipeVars

\* app.py run again without a click (any other widget event): the button is
\* False, and the results block, entered when analysis_complete, reads
\* `requirements`, which this run never assigned (line 133)
Rerun ==
    /\ entry = "app"
    /\ pc = "idle"
    /\ analysis_complete
    /\ outcome' = "exception"
    /\ pc' = "crashed"
    /\ UNCHANGED <<entry, sessionVars, inputVars, loopVars, report, countVars,
                   requirements_text, requirements, structured>>
    /\ UNCHANGED notPipeVars

\* generate_report.main lines 78-99
MainStart ==
    /\ entry = "main"
    /\ pc = "idle"
    /\ \E t \in DocKinds, f \in [Slots -> DocKinds] :
          /\ tender_file' = t
          /\ firm_files' = f
          /\ FreshLocals
          /\ IF t = "none" \/ \E s \in Slots : f[s] = "none"
             THEN /\ outcome' = "error_file_not_found"
                  /\ pc' = "ended"
                  /\ tender_text' = "unset"
                  /\ firm_texts' = <<>>
             ELSE IF t = "unreadable"
             THEN /\ outcome' = "exception"
                  /\ pc' = "crashed"
                  /\ tender_text' = "unset"
                  /\ firm_texts' = <<>>
             ELSE IF \E s \in Slots : f[s] = "unreadable"
             THEN /\ outcome' = "exception"
                  /\ pc' = "crashed"
                  /\ tender_text' = t
                  /\ firm_texts' = <<>>
             ELSE /\ tender_text' = t
                  /\ firm_texts' = TextsOf(f)
                  /\ outcome' = "none"
                  /\ pc' = "extract_requirements"
    /\ UNCHANGED <<entry, sessionVars>>
    /\ UNCHANGED notPipeVars

\* extract_requirements_only(tender_text) returns; `if not requirements:`
\* (app.py lines 64-68, generate_report.py lines 104-109)
ExtractRequirements ==
    /\ entry \in {"app", "main"}
    /\ pc = "extract_requirements"
    /\ \E listing \in PlainListings :
          /\ requirements_text' = listing
          /\ requirements' = ParsePlain(listing)
          /\ IF NoRequirements(ParsePlain(listing))
             THEN outcome' = "error_no_requirements" /\ pc' = "ended"
             ELSE outcome' = "none" /\ pc' = (IF entry = "app" THEN "compare" ELSE "generate")
    /\ extract_calls' = extract_calls + 1
    /\ firm_i' = 1
    /\ req_j' = 1
    /\ UNCHANGED <<entry, sessionVars, inputVars, comparison_data, compliance_results,
                   latex_rows, report, classify_calls, failed, structured>>
    /\ UNCHANGED notPipeVars

\* the chat call of extract_requirements_only raises
ExtractRequirementsRaises ==
    /\ entry \in {"app", "main"}
    /\ pc = "extract_requirements"
    /\ extract_calls' = extract_calls + 1
    /\ failed' = <<[phase |-> "extract", firm |-> 0, req |-> 0]>>
    /\ outcome' = "exception"
    /\ pc' = "crashed"
    /\ UNCHANGED <<entry, sessionVars, inputVars, loopVars, report, classify_calls,
                   requirements_text, requirements, structured>>
    /\ UNCHANGED notPipeVars

\* app.py lines 77-82: compliance = evaluate_compliance(req, firm_text)
AppEvaluate ==
    /\ entry = "app"
    /\ pc = "compare"
    /\ firm_i <= Len(firm_texts)
    /\ req_j <= Len(requirements)
    /\ \E r \in TerseResponses :
          compliance_results' = Append(compliance_results, TerseVerdict[r])
    /\ classify_calls' = classify_calls + 1
    /\ req_j' = req_j + 1
    /\ UNCHANGED <<entry, pc, sessionVars, inputVars, comparison_data, firm_i, latex_rows,
                   report, outcome, extract_calls, failed,
                   requirements_text, requirements, structured>>
    /\ UNCHANGED notPipeVars

\* a classifier that answers 'Not Complied' when its chat call raises
AppEvaluateSwallows ==
    /\ entry = "app"
    /\ pc = "compare"
    /\ firm_i <= Len(firm_texts)
    /\ req_j <= Len(requirements)
    /\ compliance_results' = Append(compliance_results, sNotComplied)
    /\ failed' = <<[phase |-> "compare", firm |-> firm_i, req |-> req_j]>>
    /\ classify_calls' = classify_calls + 1
    /\ req_j' = req_j + 1
    /\ UNCHANGED <<entry, pc, sessionVars, inputVars, comparison_data, firm_i, latex_rows,
                   report, outcome, extract_calls,
                   requirements_text, requirements, structured>>
    /\ UNCHANGED notPipeVars

\* app.py line 78: the chat call of evaluate_compliance raises; neither
\* evaluate_compliance nor app.py catches it, the script run ends
AppEvaluateRaises ==
    /\ entry = "app"
    /\ pc = "compare"
    /\ firm_i <= Len(firm_texts)
    /\ req_j <= Len(requirements)
    /\ failed' = <<[phase |-> "compare", firm |-> firm_i, req |-> req_j]>>
    /\ classify_calls' = classify_calls + 1
    /\ outcome' = "exception"
    /\ pc' = "crashed"
    /\ UNCHANGED <<entry, sessionVars, inputVars, loopVars, report, extract_calls,
                   requirements_text, requirements, structured>>
    /\ UNCHANGED notPipeVars

\* app.py lines 74-76 and 83: comparison_data[f"Firm {i + 1}"] = compliance_results
AppFirmDone ==
    /\ entry = "app"
    /\ pc = "compare"
    /\ firm_i <= Len(firm_texts)
    /\ req_j > Len(requirements)
    /\ comparison_data' =
          Append(comparison_data,
                 [firm |-> firm_i, slot |-> firm_texts[firm_i].slot,
                  results |-> compliance_results])
    /\ compliance_results' = <<>>
    /\ firm_i' = firm_i + 1
    /\ req_j' = 1
    /\ UNCHANGED <<entry, pc, sessionVars, inputVars, latex_rows, report, outcome,
                   countVars, requirements_text, requirements, structured>>
    /\ UNCHANGED notPipeVars

\* app.py lines 84-90: the DataFrame is stored and the analysis is complete
AppFinalize ==
    /\ entry = "app"
    /\ pc = "compare"
    /\ firm_i > Len(firm_texts)
    /\ report_data' = <<[Requirement |-> requirements, columns |-> comparison_data]>>
    /\ analysis_complete' = TRUE
    /\ pc' = "display"
    /\ UNCHANGED <<entry, inputVars, loopVars, report, outcome, countVars,
                   requirements_text, requirements, structured>>
    /\ UNCHANGED notPipeVars

\* app.py lines 93-132: the summary is shown and the three proposal files of
\* the data directory are read
AppDisplayExtract ==
    /\ entry = "app"
    /\ pc = "display"
    /\ analysis_complete
    /\ pc' = "generate"
    /\ firm_i' = 1
    /\ req_j' = 1
    /\ compliance_results' = <<>>
    /\ latex_rows' = <<>>
    /\ UNCHANGED <<entry, sessionVars, inputVars, comparison_data, report, outcome,
                   countVars, requirements_text, requirements, structured>>
    /\ UNCHANGED notPipeVars

\* app.py lines 130-132: extract_text raises on a file of the data directory
AppDisplayExtractRaises ==
    /\ entry = "app"
    /\ pc = "display"
    /\ analysis_complete
    /\ outcome' = "exception"
    /\ pc' = "crashed"
    /\ UNCHANGED <<entry, sessionVars, inputVars, loopVars, report, countVars,
                   requirements_text, requirements, structured>>
    /\ UNCHANGED notPipeVars

\* generate_compliance_comparison lines 139-152, one pass of the loop: the
\* three evaluate_compliance calls return and the row is appended
GenerateRow ==
    /\ entry = "main"
    /\ pc = "generate"
    /\ req_j <= Len(requirements)
    /\ \E r1 \in TerseResponses, r2 \in TerseResponses, r3 \in TerseResponses :
          latex_rows' =
              Append(latex_rows,
                     BasicRow(requirements[req_j], TerseVerdict[r1], TerseVerdict[r2],
                              TerseVerdict[r3]))
    /\ classify_calls' = classify_calls + NumFirms
    /\ req_j' = req_j + 1
    /\ UNCHANGED <<entry, pc, sessionVars, inputVars, comparison_data, compliance_results,
                   firm_i, report, outcome, extract_calls, failed,
                   requirements_text, requirements, structured>>
    /\ UNCHANGED notPipeVars

\* generate_compliance_comparison lines 143-145: the chat call for one of the
\* three firms raises, and neither create_compliance_table_latex nor its
\* caller catches it
GenerateRowRaises ==
    /\ entry \in {"app", "main"}
    /\ pc = "generate"
    /\ req_j <= Len(requirements)
    /\ \E k \in Slots :
          /\ failed' = <<[phase |-> "generate", firm |-> k, req |-> req_j]>>
          /\ classify_calls' = classify_calls + k
          /\ firm_i' = k
    /\ outcome' = "exception"
    /\ pc' = "crashed"
    /\ UNCHANGED <<entry, sessionVars, inputVars, comparison_data, compliance_results,
                   req_j, latex_rows, report, extract_calls,
                   requirements_text, requirements, structured>>
    /\ UNCHANGED notPipeVars

\* app.py line 133, one pass of the loop of generate_compliance_comparison
\* for latex_content. Nothing reads latex_content afterwards (the download is
\* read from the output directory, lines 143-146), so the verdicts and the
\* row are not part of the state: only the three calls are
AppGenerateRow ==
    /\ entry = "app"
    /\ pc = "generate"
    /\ req_j <= Len(requirements)
    /\ \E r1 \in TerseResponses, r2 \in TerseResponses, r3 \in TerseResponses :
          {TerseVerdict[r1], TerseVerdict[r2], TerseVerdict[r3]} \subseteq Verdicts
    /\ classify_calls' = classify_calls + NumFirms
    /\ req_j' = req_j + 1
    /\ UNCHANGED <<entry, pc, sessionVars, inputVars, comparison_data, compliance_results,
                   firm_i, latex_rows, report, outcome, extract_calls, failed,
                   requirements_text, requirements, structured>>
    /\ UNCHANGED notPipeVars

\* create_compliance_table_latex returns (line 233); generate_report.py lines
\* 124-137 write latex_content to the report file
MainWriteReport ==
    /\ entry = "main"
    /\ pc = "generate"
    /\ req_j > Len(requirements)
    /\ report' = <<Join(latex_rows, sNewline)>>
    /\ outcome' = "report_written"
    /\ pc' = "ended"
    /\ UNCHANGED <<entry, sessionVars, inputVars, loopVars, countVars,
                   requirements_text, requirements, structured>>
    /\ UNCHANGED notPipeVars

\* app.py lines 133-154: latex_content is computed, the table is shown and the
\* report file of the output directory is offered for download
AppShowResults ==
    /\ entry = "app"
    /\ pc = "generate"
    /\ req_j > Len(requirements)
    /\ outcome' = "results_shown"
    /\ pc' = "ended"
    /\ UNCHANGED <<entry, sessionVars, inputVars, loopVars, report, countVars,
                   requirements_text, requirements, structured>>
    /\ UNCHANGED notPipeVars

\* app.py lines 145-146: the report file of the output directory cannot be read
AppShowResultsRaises ==
    /\ entry = "app"
    /\ pc = "generate"
    /\ req_j > Len(requirements)
    /\ outcome' = "exception"
    /\ pc' = "crashed"
    /\ UNCHANGED <<entry, sessionVars, inputVars, loopVars, report, countVars,
                   requirements_text, requirements, structured>>
    /\ UNCHANGED notPipeVars

\* generate_enhanced_comparison_table is called with four texts
EnhancedStart ==
    /\ entry = "enhanced"
    /\ pc = "idle"
    /\ \E t \in {"empty", "text"}, f \in {[s \in Slots |-> "text"]} :
          /\ tender_file' = t
          /\ firm_files' = f
          /\ tender_text' = t
          /\ firm_texts' = TextsOf(f)
    /\ FreshLocals
    /\ outcome' = "none"
    /\ pc' = "extract_requirements"
    /\ UNCHANGED <<entry, sessionVars>>
    /\ UNCHANGED notPipeVars

\* compare_with_ollama.py lines 150-154: extract_structured_requirements
\* returns; `if not requirements: return ""`
EnhancedExtract ==
    /\ entry = "enhanced"
    /\ pc = "extract_requirements"
    /\ \E listing \in CategorizedListings :
          /\ requirements_text' = listing
          /\ structured' = ParseStructured(listing)
          /\ IF NoRequirements(ParseStructured(listing))
             THEN /\ outcome' = "error_no_requirements"
                  /\ report' = << <<>> >>
                  /\ pc' = "ended"
             ELSE /\ outcome' = "none"
                  /\ report' = report
                  /\ pc' = "check"
    /\ extract_calls' = extract_calls + 1
    /\ firm_i' = 1
    /\ req_j' = 1
    /\ UNCHANGED <<entry, sessionVars, inputVars, comparison_data, compliance_results,
                   latex_rows, classify_calls, failed, requirements>>
    /\ UNCHANGED notPipeVars

\* the chat call of extract_structured_requirements raises
EnhancedExtractRaises ==
    /\ entry = "enhanced"
    /\ pc = "extract_requirements"
    /\ extract_calls' = extract_calls + 1
    /\ failed' = <<[phase |-> "extract", firm |-> 0, req |-> 0]>>
    /\ outcome' = "exception"
    /\ pc' = "crashed"
    /\ UNCHANGED <<entry, sessionVars, inputVars, loopVars, report, classify_calls,
                   requirements_text, requirements, structured>>
    /\ UNCHANGED notPipeVars

\* compare_with_ollama.py lines 160-183, one pass of the loop: the three
\* smart_compliance_check calls return, the row is appended, and the rule
\* after it between categories
EnhancedRowDone ==
    /\ entry = "enhanced"
    /\ pc = "check"
    /\ req_j <= Len(structured)
    /\ \E r1 \in StructuredResponses, r2 \in StructuredResponses,
          r3 \in StructuredResponses :
          latex_rows' =
              Append(latex_rows,
                     EnhancedRow(structured[req_j].full_text, StructuredVerdict[r1],
                                 StructuredVerdict[r2], StructuredVerdict[r3]))
              \o (IF SeparatorAfter(req_j, structured) THEN <<sHline>> ELSE <<>>)
    /\ classify_calls' = classify_calls + NumFirms
    /\ req_j' = req_j + 1
    /\ UNCHANGED <<entry, pc, sessionVars, inputVars, comparison_data, compliance_results,
                   firm_i, report, outcome, extract_calls, failed,
                   requirements_text, requirements, structured>>
    /\ UNCHANGED notPipeVars

\* compare_with_ollama.py lines 164-166: the chat call for one of the three
\* firms raises
EnhancedCheckRaises ==
    /\ entry = "enhanced"
    /\ pc = "check"
    /\ req_j <= Len(structured)
    /\ \E k \in Slots :
          /\ failed' = <<[phase |-> "check", firm |-> k, req |-> req_j]>>
          /\ classify_calls' = classify_calls + k
          /\ firm_i' = k
    /\ outcome' = "exception"
    /\ pc' = "crashed"
    /\ UNCHANGED <<entry, sessionVars, inputVars, comparison_data, compliance_results,
                   req_j, latex_rows, report, extract_calls,
                   requirements_text, requirements, structured>>
    /\ UNCHANGED notPipeVars

\* compare_with_ollama.py line 185: return "\n".join(latex_rows)
EnhancedReturn ==
    /\ entry = "enhanced"
    /\ pc = "check"
    /\ req_j > Len(structured)
    /\ report' = <<Join(latex_rows, sNewline)>>
    /\ outcome' = "table_returned"
    /\ pc' = "ended"
    /\ UNCHANGED <<entry, sessionVars, inputVars, loopVars, countVars,
                   requirements_text, requirements, structured>>
    /\ UNCHANGED notPipeVars

Next ==
    \/ Click
    \/ ScriptRunOver
    \/ Rerun
    \/ MainStart
    \/ ExtractRequirements
    \/ ExtractRequirementsRaises
    \/ AppEvaluate
    \/ AppEvaluateRaises
    \/ AppFirmDone
    \/ AppFinalize
    \/ AppDisplayExtract
    \/ AppDisplayExtractRaises
    \/ GenerateRow
    \/ GenerateRowRaises
    \/ AppGenerateRow
    \/ MainWriteReport
    \/ AppShowResults
    \/ AppShowResultsRaises
    \/ EnhancedStart
    \/ EnhancedExtract
    \/ EnhancedExtractRaises
    \/ EnhancedRowDone
    \/ EnhancedCheckRaises
    \/ EnhancedReturn

----------------------------------------------------------------------------
\* The report: create_compliance_table_latex and calculate_compliance_summary

\* the requirement texts of the reports
TableTexts == { <<"a">>, <<"a", "&", "b">> }

TemplateHead ==
    <<"\\","s","e","c","t","i","o","n","*","{","M","e","t","h","o","d","o","l","o","g",
      "y","}","\n","\\","i","t","e","m"," ","S","c","o","r","i","n","g",":"," ","(","C",
      "o","m","p","l","i","e","d","/","N","o","t"," ","C","o","m","p","l","i","e","d",
      ")","\n","\\","b","e","g","i","n","{","l","o","n","g","t","a","b","l","e","}",
      "\n","\\","h","l","i","n","e","\n","R","e","q","u","i","r","e","m","e","n","t",
      " ","&"," ","F","i","r","m"," ","1"," ","&"," ","F","i","r","m"," ","2"," ","&",
      " ","F","i","r","m"," ","3"," ","\\","\\","\n","\\","h","l","i","n","e","\n","\\",
      "e","n","d","h","e","a","d","\n","\n">>

TemplateTail ==
    <<"\n","\n","\\","h","l","i","n","e","\n","\\","e","n","d","{","l","o","n","g","t",
      "a","b","l","e","}","\n","\\","i","t","e","m"," ","C","o","m","p","l","i","e","d",
      ":"," ","m","e","e","t","s","\n","\\","i","t","e","m"," ","N","o","t"," ","C","o",
      "m","p","l","i","e","d",":"," ","d","o","e","s"," ","n","o","t"," ","m","e","e",
      "t","\n","\\","e","n","d","{","d","o","c","u","m","e","n","t","}","\n">>

\* generate_compliance_comparison: the rows for the verdicts the three
\* evaluate_compliance calls of each requirement returned, joined by newlines
GenerateComplianceComparison(reqs, verdicts) ==
    Join([n \in 1..Len(reqs) |->
            BasicRow(reqs[n], verdicts[n][1], verdicts[n][2], verdicts[n][3])],
         sNewline)

\* latex_template of create_compliance_table_latex: the boilerplate before
\* the rows (with its lines that hold '&' or 'Complied': the scoring item and
\* the header row), table_rows, and the boilerplate after them (the legend)
LatexTemplate(table_rows) == TemplateHead \o table_rows \o TemplateTail

\* one pass of the loop of calculate_compliance_summary: what the line adds
\* to total_requirements and to the three counters
LineCounts(line) ==
    IF Contains(line, sAmp) /\ Contains(line, sComplied)
    THEN LET parts == Split(line, sAmp)
         IN  [ total |-> 1,
               complied |->
                   [k \in Slots |->
                       IF Len(parts) >= 4
                          /\ Contains(parts[k + 1], sComplied)
                          /\ ~Contains(parts[k + 1], sNotComplied)
                       THEN 1 ELSE 0] ]
    ELSE [ total |-> 0, complied |-> [k \in Slots |-> 0] ]

\* the loop of calculate_compliance_summary over the lines
RECURSIVE SummaryOfLines(_)
SummaryOfLines(lines) ==
    IF lines = <<>> THEN [ total |-> 0, complied |-> [k \in Slots |-> 0] ]
    ELSE LET first == LineCounts(Head(lines))
             rest == SummaryOfLines(Tail(lines))
         IN  [ total |-> first.total + rest.total,
               complied |-> [k \in Slots |-> first.complied[k] + rest.complied[k]] ]

\* calculate_compliance_summary(latex_content): total_requirements and
\* firm1_complied, firm2_complied, firm3_complied
CalculateSummary(content) ==
    LET counts == SummaryOfLines(Split(content, sNewline))
    IN  [ total_requirements |-> counts.total,
          firm1_complied |-> counts.complied[1],
          firm2_complied |-> counts.complied[2],
          firm3_complied |-> counts.complied[3] ]

\* the callers pass a list with at least one requirement
ReportStart ==
    /\ table_requirements \in SeqsUpTo(TableTexts, MaxRows) \ {<<>>}
    /\ matrix = <<>>
    /\ latex_content = <<>>
    /\ stats = <<>>
    /\ tpc = "init"

\* no report is being made
ReportIdle ==
    /\ table_requirements = <<>>
    /\ matrix = <<>>
    /\ latex_content = <<>>
    /\ stats = <<>>
    /\ tpc = "off"

\* create_compliance_table_latex(requirements, firm1_text, firm2_text,
\* firm3_text), called for the first time or again with the same arguments:
\* every call asks the backend for the verdict of every cell
CreateComplianceTableLatex ==
    /\ tpc \in {"init", "rendered"}
    /\ \E answers \in [1..Len(table_requirements) -> [Slots -> TerseResponses]] :
          LET verdicts ==
                  [n \in 1..Len(table_requirements) |->
                      [k \in Slots |-> TerseVerdict[answers[n][k]]]]
          IN  /\ matrix' = verdicts
              /\ latex_content' =
                    LatexTemplate(GenerateComplianceComparison(table_requirements,
                                                               verdicts))
    /\ tpc' = "rendered"
    /\ UNCHANGED <<table_requirements, stats>>
    /\ UNCHANGED notReportVars

\* stats = calculate_compliance_summary(latex_content)
CalculateComplianceSummary ==
    /\ tpc = "rendered"
    /\ stats' = <<CalculateSummary(latex_content)>>
    /\ tpc' = "summarized"
    /\ UNCHANGED <<table_requirements, matrix, latex_content>>
    /\ UNCHANGED notReportVars

ReportNext == CreateComplianceTableLatex \/ CalculateComplianceSummary

----------------------------------------------------------------------------
\* Specifications

\* the classifiers applied to every backend answer
ClassifyInit == ClassifyStart /\ ParseIdle /\ RenderIdle /\ ExtractIdle /\ PipeIdle /\ ReportIdle

SpecClassify == ClassifyInit /\ [][ClassifyNext]_vars

\* the parsers applied to every requirement listing
ParseInit == ParseStart /\ ClassifyIdle /\ RenderIdle /\ ExtractIdle /\ PipeIdle /\ ReportIdle

SpecParse == ParseInit /\ [][ParseNext]_vars

\* the row renderers applied to every requirement text
RenderInit == RenderStart /\ ClassifyIdle /\ ParseIdle /\ ExtractIdle /\ PipeIdle /\ ReportIdle

SpecRender == RenderInit /\ [][RenderNext]_vars

\* extract_text called on every document
ExtractInit == ExtractStart /\ ClassifyIdle /\ ParseIdle /\ RenderIdle /\ PipeIdle /\ ReportIdle

SpecExtract == ExtractInit /\ [][ExtractNext]_vars

\* the three entry points, each with every input and every backend answer
Init == PipeStart /\ ClassifyIdle /\ ParseIdle /\ RenderIdle /\ ExtractIdle /\ ReportIdle

Spec == Init /\ [][Next]_vars

\* create_compliance_table_latex and calculate_compliance_summary
ReportInit ==
    ReportStart /\ ClassifyIdle /\ ParseIdle /\ RenderIdle /\ ExtractIdle /\ PipeIdle

SpecReport == ReportInit /\ [][ReportNext]_vars

----------------------------------------------------------------------------
\* Claims about the classifiers

\* C1: evaluate_compliance returns 'Complied' only when the trimmed,
\* case-normalised response is exactly the token 'complied'; every other
\* response yields 'Not Complied'.
C1_CompliedOnlyForExactToken ==
    cpc = "terse" =>
        (verdict = sComplied => Lower(Strip(response)) = scomplied)

\* C2 (as claimed): whenever the STATUS: label or the REASON: label is missing,
\* smart_compliance_check returns both defaults, status 'Not Complied' and
\* reason 'Unable to determine compliance'.
C2_BothDefaultsWhenEitherMissing ==
    (cpc = "structured"
        /\ (~Contains(response, sSTATUS) \/ ~Contains(response, sREASON)))
    => (status = sNotComplied /\ reason = sUnable)

\* C2 (amended): each default applies to its own label: a response without
\* STATUS: gets status 'Not Complied', a response without REASON: gets reason
\* 'Unable to determine compliance', and the other value is still parsed.
C2_DefaultPerMissingLabel ==
    cpc = "structured" =>
        /\ (~Contains(response, sSTATUS) => status = sNotComplied)
        /\ (~Contains(response, sREASON) => reason = sUnable)

\* a response with STATUS: Complied and no REASON: line has been classified
C2_Witness ==
    /\ cpc = "structured"
    /\ Contains(response, sSTATUS)
    /\ ~Contains(response, sREASON)
    /\ status = sComplied
    /\ reason = sUnable

----------------------------------------------------------------------------
\* Claims about the requirement parsers

\* the lines of the listing, stripped
ListingLines == [k \in 1..Len(Split(requirements_text, sNewline)) |->
                    Strip(Split(requirements_text, sNewline)[k])]

\* a line qualifies: non-empty, starts with '-' or the bullet, or contains ':'
LineQualifies(k) ==
    /\ ListingLines[k] # <<>>
    /\ \/ Head(ListingLines[k]) = "-"
       \/ Head(ListingLines[k]) = Bullet
       \/ \E n \in 1..Len(ListingLines[k]) : ListingLines[k][n] = ":"

\* the line with its leading bullet markers stripped
LineText(k) == Strip(LStripChars(ListingLines[k], BulletMarkers))

\* result is, in order, the text of the lines whose number is in keep
IsOrderedImage(result, keep) ==
    /\ Len(result) = Cardinality(keep)
    /\ \A k \in keep :
          result[Cardinality({q \in keep : q <= k})] = LineText(k)

\* C4 (as claimed): extract_requirements_only returns, in line order, exactly
\* one requirement for each qualifying line, bullet markers stripped, and
\* nothing for any other line.
C4_OneRequirementPerQualifyingLine ==
    ppc = "plain" =>
        IsOrderedImage(requirements,
                       {k \in 1..Len(ListingLines) : LineQualifies(k)})

\* C4 (amended): extract_requirements_only returns, in line order, exactly one
\* requirement for each qualifying line whose text is non-empty once the
\* leading bullet markers are stripped, and nothing for any other line.
C4_OneRequirementPerNonEmptyQualifyingLine ==
    ppc = "plain" =>
        IsOrderedImage(requirements,
                       {k \in 1..Len(ListingLines) :
                            LineQualifies(k) /\ LineText(k) # <<>>})

\* two different hyphen-prefixed lines have been parsed into two requirements
C4_Witness ==
    /\ ppc = "plain"
    /\ Len(ListingLines) = 2
    /\ \A k \in 1..2 : LineQualifies(k) /\ Head(ListingLines[k]) = "-"
    /\ LineText(1) # LineText(2)
    /\ requirements = <<LineText(1), LineText(2)>>

\* a line meets the category criteria: a category name occurs in it, in any
\* case, and it splits on ':' into at least 3 parts
MeetsCategoryCriteria(k) ==
    /\ \E cat \in Categories : Contains(Upper(ListingLines[k]), cat)
    /\ Len(SplitMax(ListingLines[k], sColon, 2)) >= 3

\* C5: in category-aware mode every qualifying line that does not meet the
\* category criteria is kept as a plain requirement whose full_text is the
\* stripped line; no qualifying line is dropped.
C5_UncategorizedLinesKept ==
    ppc = "structured" =>
        \A k \in 1..Len(ListingLines) :
            (LineQualifies(k) /\ LineText(k) # <<>> /\ ~MeetsCategoryCriteria(k))
            => \E n \in 1..Len(structured) : structured[n].full_text = LineText(k)

----------------------------------------------------------------------------
\* Claims about the row renderers

\* the characters the report format gives a meaning to
SpecialChars == {"&", "%", "_", "#", "$"}

\* the requirement cell of the rendered row: the text before the first
\* column separator
RequirementCell == Split(latex_row, sSep)[1]

\* the positions of text that hold a special character
SpecialPositions(txt) == {k \in 1..Len(txt) : txt[k] \in SpecialChars}

\* C6: in every row of either renderer each '&', '%', '_', '#' and '$' of the
\* requirement text appears in the requirement cell only behind a backslash,
\* never raw, and the three column separators the renderer inserts stay raw.
C6_SpecialCharsEscaped ==
    rpc \in {"basic", "enhanced"} =>
        /\ \A k \in SpecialPositions(RequirementCell) :
              k > 1 /\ RequirementCell[k - 1] = "\\"
        /\ Cardinality(SpecialPositions(RequirementCell))
              = Cardinality(SpecialPositions(requirement))
        /\ Len(Split(latex_row, sSep)) = 4

----------------------------------------------------------------------------
\* Claims about extract_text

\* the concatenated text layer of the document
RECURSIVE TextLayer(_)
TextLayer(ps) ==
    IF ps = <<>> THEN <<>>
    ELSE (IF Head(ps).kind = "text" THEN Head(ps).layer ELSE <<>>) \o TextLayer(Tail(ps))

\* the document has a native text layer: some page gives a character that
\* is not whitespace
HasNativeText ==
    \E k \in 1..Len(pages) :
        pages[k].kind = "text" /\ \E n \in 1..Len(pages[k].layer) :
                                      pages[k].layer[n] \notin Whitespace

\* the fallback has started: the temporary directory was created
FallbackRan == tmpdir # "absent"

\* C10: rendering and OCR happen only when the concatenated text layer is
\* empty after stripping, never for a document with a native text layer; when
\* the fallback returns, OCR has run exactly once on the image of every page
\* (and never twice on an image); and on every exit of the call, by return or
\* by an exception, the temporary directory no longer exists.
C10_OcrFallbackProtocol ==
    xpc # "off" =>
        /\ (FallbackRan \/ images # <<>> \/ ocr_calls # <<>>)
              => (Strip(TextLayer(pages)) = <<>> /\ ~HasNativeText)
        /\ \A k \in 1..Len(ocr_calls) : ocr_calls[k] <= 1
        /\ (xpc = "returned" /\ FallbackRan)
              => /\ Len(images) = Len(pages)
                 /\ Len(ocr_calls) = Len(images)
                 /\ \A k \in 1..Len(images) : ocr_calls[k] = 1
        /\ xpc \in {"returned", "raised"} => tmpdir # "exists"

\* OCR raised on the second image of a scanned document, after the first
\* image was read, and the call has ended
C10_Witness ==
    /\ xpc = "raised"
    /\ Len(pages) >= 2
    /\ FallbackRan
    /\ Len(ocr_calls) >= 2
    /\ ocr_calls[1] = 1 /\ ocr_calls[2] = 1
    /\ page_no = 2
    /\ tmpdir = "removed"

----------------------------------------------------------------------------
\* Claims about the pipeline entry points

\* a verdict for the cell of the failed classification is part of what the
\* run keeps: the column, the matrix, or the rows
FailedCellRecorded ==
    LET f == failed[1]
    IN  \/ /\ f.phase = "compare"
           /\ \/ Len(comparison_data) >= f.firm
              \/ Len(compliance_results) >= f.req
        \/ /\ f.phase \in {"generate", "check"}
           /\ Len(SelectSeq(latex_rows, LAMBDA row : row # sHline)) >= f.req

\* C3: a chat call that raises during a classification is never turned into
\* a verdict. The run stops with the exception; no verdict for the cell is in
\* the column, the matrix or the rows of the run; a failure while the matrix
\* is being built leaves the analysis not complete and no matrix stored; and
\* no report or table is returned.
C3_BackendFailureIsNotAVerdict ==
    (failed # <<>> /\ failed[1].phase # "extract") =>
        /\ pc = "crashed"
        /\ outcome = "exception"
        /\ ~FailedCellRecorded
        /\ report = <<>>
        /\ (failed[1].phase = "compare"
                => (~analysis_complete /\ report_data = <<>>))

\* the chat call for the first requirement of the second proposal raised
\* after the column of the first proposal was recorded
C3_Witness ==
    /\ entry = "app"
    /\ failed # <<>>
    /\ failed[1] = [phase |-> "compare", firm |-> 2, req |-> 1]
    /\ Len(comparison_data) = 1
    /\ classify_calls = Len(requirements) + 1

\* the entries of latex_rows that are rows, in order
TableRows == SelectSeq(latex_rows, LAMBDA row : row # sHline)

\* the position in latex_rows of the k-th row
RowPosition(k) ==
    CHOOSE p \in 1..Len(latex_rows) :
        /\ latex_rows[p] # sHline
        /\ Cardinality({q \in 1..p : latex_rows[q] # sHline}) = k

\* a rule is the entry right after the k-th row
RuleFollows(k) ==
    /\ RowPosition(k) < Len(latex_rows)
    /\ latex_rows[RowPosition(k) + 1] = sHline

\* the adjacent pairs of requirements with different categories
CategoryBreaks ==
    {k \in 1..(Len(structured) - 1) : structured[k].category # structured[k + 1].category}

\* C7: in the table generate_enhanced_comparison_table returns, there is one
\* row per requirement in the order of the requirements, a rule is right after
\* row i exactly when row i is not the last and its category differs from that
\* of row i+1, the rules are as many as the adjacent pairs with different
\* categories, and the last line is a row.
C7_SeparatorsBetweenCategories ==
    (entry = "enhanced" /\ outcome = "table_returned") =>
        /\ Len(TableRows) = Len(structured)
        /\ \A k \in 1..Len(structured) :
              /\ StartsWith(TableRows[k],
                            EscapeEnhanced(structured[k].full_text) \o sSep)
              /\ RuleFollows(k) <=> (k \in CategoryBreaks)
        /\ Len(latex_rows) - Len(TableRows) = Cardinality(CategoryBreaks)
        /\ latex_rows[Len(latex_rows)] # sHline
        /\ report = <<Join(latex_rows, sNewline)>>

\* the table for the categories HARDWARE, HARDWARE, SOFTWARE has been
\* returned: three rows and one rule, between rows 2 and 3
C7_Witness ==
    /\ entry = "enhanced"
    /\ outcome = "table_returned"
    /\ [k \in 1..Len(structured) |-> structured[k].category]
          = << <<"H","A","R","D","W","A","R","E">>, <<"H","A","R","D","W","A","R","E">>,
               <<"S","O","F","T","W","A","R","E">> >>
    /\ Len(latex_rows) = 4
    /\ latex_rows[3] = sHline
    /\ latex_rows[4] # sHline

\* the requirement extraction of the run has returned
ParserReturned ==
    /\ extract_calls > 0
    /\ failed # <<>> => failed[1].phase # "extract"

\* the list the parser of the entry point returned
ParsedRequirements == IF entry = "enhanced" THEN structured ELSE requirements

\* C8: in each entry point, once the parser has returned an empty list the
\* run has ended with the no-requirements outcome, no classification has been
\* invoked in it, and there is no matrix, no row and no report (the enhanced
\* table function returns the empty string).
C8_NoRequirementsIsHardStop ==
    (entry \in Entries /\ ParserReturned /\ ParsedRequirements = <<>>) =>
        /\ pc = "ended"
        /\ outcome = "error_no_requirements"
        /\ classify_calls = 0
        /\ ~analysis_complete
        /\ report_data = <<>>
        /\ comparison_data = <<>>
        /\ latex_rows = <<>>
        /\ report = (IF entry = "enhanced" THEN << <<>> >> ELSE <<>>)

\* the backend answered the analysis of app.py with prose that lists no
\* requirement, and the run ended
C8_Witness ==
    /\ entry = "app"
    /\ tender_text = "text"
    /\ ParserReturned
    /\ requirements_text = <<"n", "o", "n", "e">>
    /\ requirements = <<>>
    /\ outcome = "error_no_requirements"

\* C9: in app.py and generate_report.main a tender whose extracted text is
\* empty stops the run before the requirement extraction call and before any
\* classification, and only an empty tender text gives the no-text outcome:
\* an empty proposal text does not stop the run.
C9_EmptyTenderStopsRun ==
    entry \in {"app", "main"} =>
        /\ tender_text = "empty" => (extract_calls = 0 /\ classify_calls = 0)
        /\ outcome = "error_no_text" => tender_text = "empty"

\* C11: in an analysis run of app.py that built its matrix, with N
\* requirements and F supplied proposals, the classifier has been invoked
\* exactly N * F times in the run, and the matrix has N requirements and F
\* columns of N verdicts each.
C11_OneClassificationPerCell ==
    (entry = "app" /\ analysis_complete
        /\ (pc \in {"display", "generate"} \/ outcome = "results_shown")) =>
        /\ classify_calls = Len(requirements) * Len(firm_texts)
        /\ Len(report_data[1].Requirement) = Len(requirements)
        /\ Len(report_data[1].columns) = Len(firm_texts)
        /\ \A k \in 1..Len(firm_texts) :
              Len(report_data[1].columns[k].results) = Len(requirements)

\* the call ended with an exception raised by page.extract_text() in the
\* text-layer loop
PageFailureRaised ==
    /\ xpc = "raised"
    /\ tmpdir = "absent"
    /\ page_no \in 1..Len(pages)

\* C14: a page whose text-layer extraction fails (page.extract_text() raises
\* or returns nothing) counts as the empty string: extract_text never ends
\* with the exception of a page, and a call that returns from the text layer
\* returns the text of the other pages.
C14_PageFailureNotFatal ==
    xpc # "off" =>
        /\ ~PageFailureRaised
        /\ (xpc = "returned" /\ ~FallbackRan) => text = TextLayer(pages)

\* C15: every record returned by extract_structured_requirements has one of
\* the nine category names as its category (compared without regard to
\* case), whatever the listing: also when the name occurs after the first
\* colon or the line has a bullet prefix.
C15_CategoryIsFixedToken ==
    ppc = "structured" =>
        \A n \in 1..Len(structured) : Upper(structured[n].category) \in Categories

\* the columns of the matrix: those stored in the session once the analysis
\* is complete, those built so far before
MatrixColumns == IF report_data # <<>> THEN report_data[1].columns ELSE comparison_data

\* C16: in app.py the column labelled 'Firm k' holds the verdicts computed
\* against the proposal uploaded in slot k, for every set of filled slots,
\* and the columns are in slot order.
C16_ColumnLabelIsUploadSlot ==
    entry = "app" =>
        \A k \in 1..Len(MatrixColumns) :
            /\ MatrixColumns[k].firm = MatrixColumns[k].slot
            /\ k > 1 => MatrixColumns[k - 1].slot < MatrixColumns[k].slot

----------------------------------------------------------------------------
\* Claims about the report

\* C12: rendering the report again for the same requirements, with the
\* verdict matrix already computed, gives the same text byte for byte: the
\* text is the one of (requirements, matrix) and no answer the backend gives
\* during the rendering changes it.
C12_RenderingIsDeterministic ==
    [][(tpc = "rendered" /\ tpc' = "rendered") =>
          /\ latex_content' = latex_content
          /\ latex_content' =
                LatexTemplate(GenerateComplianceComparison(table_requirements, matrix))]_vars

\* the requirements whose verdict for firm k is 'Complied'
CompliedRows(k) == {n \in 1..Len(matrix) : matrix[n][k] = sComplied}

\* C13: for every list of requirement texts and every verdict matrix the
\* report was rendered from, calculate_compliance_summary gives
\* total_requirements equal to the number of requirements and, for each firm
\* k, firmk_complied equal to the number of 'Complied' verdicts of firm k.
C13_SummaryCountsMatchMatrix ==
    tpc = "summarized" =>
        /\ stats[1].total_requirements = Len(table_requirements)
        /\ stats[1].firm1_complied = Cardinality(CompliedRows(1))
        /\ stats[1].firm2_complied = Cardinality(CompliedRows(2))
        /\ stats[1].firm3_complied = Cardinality(CompliedRows(3))

====
